---- MODULE Spec2Model ----
(***************************************************************************)
(* Model of src/prrmutations.cpp: the two exported functions               *)
(*   Rcpp::NumericMatrix permutations(int n)                               *)
(*   float maxC(std::vector<float> v)                                      *)
(* One behaviour is one call of one of them.  The statements of the call   *)
(* are the actions; the host's pending-interrupt flag is the only thing    *)
(* that changes from outside the call.                                     *)
(***************************************************************************)
EXTENDS Integers, Sequences, FiniteSets, TLC

VARIABLES
    call,         \* which exported function this behaviour calls
    pc,           \* position of the call
    n,            \* permutations: the argument
    i,            \* permutations: outer loop variable (line 12)
    v,            \* permutations: std::vector<int> v (line 9)
    data,         \* permutations: std::vector<std::vector<int>> data (line 10)
    interrupted,  \* host: a user interrupt is pending
    outcome,      \* how the call ended: "none" while running
    output,       \* permutations: the NumericMatrix returned (line 21)
    iters,        \* history: do-while bodies run in the current outer iteration
    unchecked,    \* history: rows recorded since the last interrupt check
    mv,           \* maxC: the argument
    first,        \* maxC: max_element's scanning iterator (index, Len+1 = end)
    result,       \* maxC: max_element's best-so-far iterator
    ret           \* maxC: the value returned

vars == <<call, pc, n, i, v, data, interrupted, outcome, output, iters,
          unchecked, mv, first, result, ret>>

permVars == <<n, i, v, data, output, iters, unchecked>>
maxVars  == <<mv, first, result, ret>>

----------------------------------------------------------------------------
(* Bounds of the model *)

MaxN == 5

MaxLen == 3

MaxVal == 2

MaxGarbage == 2

NInputs == (0 - 1)..MaxN

Vals == (0 - MaxVal)..MaxVal

\* what a read through an invalid reference or iterator may yield
GarbageSizes == 0..MaxGarbage

GarbageVals == (0 - MaxVal - 1)..(MaxVal + 1)

SeqsUpTo(S, k) == UNION {[1..m -> S] : m \in 0..k}

----------------------------------------------------------------------------
(* Helpers *)

Terminal == {"done", "cancelled", "crashed"}

Reverse(s) == [k \in 1..Len(s) |-> s[Len(s) + 1 - k]]

Max(S) == CHOOSE x \in S : \A y \in S : y <= x

EmptyGrid == [nrow |-> 0, ncol |-> 0, cells |-> <<>>]

\* std::next_permutation(v.begin(), v.end()): the next arrangement in
\* lexicographic order and true, or, when s is the last arrangement, the
\* first (ascending) arrangement and false.
NextPermutationNoWrap(s) ==
    LET asc == {k \in 1..(Len(s) - 1) : s[k] < s[k + 1]} IN
    IF asc = {} THEN [seq |-> s, more |-> FALSE]
    ELSE LET k  == Max(asc)
             j  == Max({m \in (k + 1)..Len(s) : s[k] < s[m]})
             sw == [s EXCEPT ![k] = s[j], ![j] = s[k]]
         IN [seq |-> SubSeq(sw, 1, k) \o Reverse(SubSeq(sw, k + 1, Len(s))),
             more |-> TRUE]

NextPermutationDescending(s) ==
    LET desc == {k \in 1..(Len(s) - 1) : s[k] > s[k + 1]} IN
    IF desc = {} THEN [seq |-> Reverse(s), more |-> FALSE]
    ELSE LET k  == Max(desc)
             j  == Max({m \in (k + 1)..Len(s) : s[k] > s[m]})
             sw == [s EXCEPT ![k] = s[j], ![j] = s[k]]
         IN [seq |-> SubSeq(sw, 1, k) \o Reverse(SubSeq(sw, k + 1, Len(s))),
             more |-> TRUE]

NextPermutation(s) ==
    LET asc == {k \in 1..(Len(s) - 1) : s[k] < s[k + 1]} IN
    IF asc = {} THEN [seq |-> Reverse(s), more |-> FALSE]
    ELSE LET k  == Max(asc)
             j  == Max({m \in (k + 1)..Len(s) : s[k] < s[m]})
             sw == [s EXCEPT ![k] = s[j], ![j] = s[k]]
         IN [seq |-> SubSeq(sw, 1, k) \o Reverse(SubSeq(sw, k + 1, Len(s))),
             more |-> TRUE]

\* v.push_back(i)
PushFront(s, x) == <<x>> \o s

PushBack(s, x) == Append(s, x)

\* if (i == n)
RecordAlways(ii, nn) == TRUE

RecordFromPenultimate(ii, nn) == ii >= nn - 1

RecordCond(ii, nn) == ii = nn

\* std::max_element's default comparison, operator<
Greater(a, b) == a > b

Less(a, b) == a < b

\* output(i, j) = data[i][j] for all i < data.size(), j < data[0].size()
MakeGrid(d) ==
    [nrow  |-> Len(d),
     ncol  |-> Len(d[1]),
     cells |-> [p \in (0..(Len(d) - 1)) \X (0..(Len(d[1]) - 1))
                   |-> d[p[1] + 1][p[2] + 1]]]

----------------------------------------------------------------------------
(* Initial states: the entry of one call *)

Init ==
    /\ call \in {"permutations", "maxC"}
    /\ IF call = "permutations"
          THEN /\ n \in NInputs
               /\ mv = <<>>
               /\ pc = "for"
          ELSE /\ n = 0
               /\ mv \in SeqsUpTo(Vals, MaxLen)
               /\ pc = "max_element"
    /\ i = 1
    /\ v = <<>>
    /\ data = <<>>
    /\ interrupted = FALSE
    /\ outcome = "none"
    /\ output = EmptyGrid
    /\ iters = 0
    /\ unchecked = 0
    /\ first = 1
    /\ result = 1
    /\ ret = 0

----------------------------------------------------------------------------
(* permutations(n) *)

\* for (...; i <= n; ...) { v.push_back(i); do {
ForTest ==
    /\ pc = "for"
    /\ IF i <= n
          THEN /\ v' = PushBack(v, i)
               /\ iters' = 0
               /\ pc' = "do"
          ELSE /\ pc' = "build"
               /\ UNCHANGED <<v, iters>>
    /\ UNCHANGED <<call, n, i, data, interrupted, outcome, output, unchecked,
                   maxVars>>

\* if (i == n) data.push_back(v);
RecordSkipCheck ==
    /\ pc = "do"
    /\ IF RecordCond(i, n)
          THEN /\ data' = Append(data, v)
               /\ unchecked' = unchecked + 1
          ELSE UNCHANGED <<data, unchecked>>
    /\ iters' = iters + 1
    /\ pc' = "while"
    /\ UNCHANGED <<call, n, i, v, interrupted, outcome, output, maxVars>>

Record ==
    /\ pc = "do"
    /\ IF RecordCond(i, n)
          THEN /\ data' = Append(data, v)
               /\ unchecked' = unchecked + 1
          ELSE UNCHANGED <<data, unchecked>>
    /\ iters' = iters + 1
    /\ pc' = "check"
    /\ UNCHANGED <<call, n, i, v, interrupted, outcome, output, maxVars>>

\* Rcpp::checkUserInterrupt(): throws when an interrupt is pending; the
\* exception leaves permutations() and no matrix is returned.
CheckIgnoresInterrupt ==
    /\ pc = "check"
    /\ unchecked' = 0
    /\ pc' = "while"
    /\ UNCHANGED <<call, n, i, v, data, interrupted, outcome, output, iters,
                   maxVars>>

CheckUserInterrupt ==
    /\ pc = "check"
    /\ unchecked' = 0
    /\ IF interrupted
          THEN /\ pc' = "cancelled"
               /\ outcome' = "Cancelled"
          ELSE /\ pc' = "while"
               /\ UNCHANGED outcome
    /\ UNCHANGED <<call, n, i, v, data, interrupted, output, iters, maxVars>>

\* } while (std::next_permutation(v.begin(), v.end()));
While ==
    /\ pc = "while"
    /\ LET r == NextPermutation(v) IN
         /\ v' = r.seq
         /\ pc' = IF r.more THEN "do" ELSE "incr"
    /\ UNCHANGED <<call, n, i, data, interrupted, outcome, output, iters,
                   unchecked, maxVars>>

\* i++
Incr ==
    /\ pc = "incr"
    /\ i' = i + 1
    /\ pc' = "for"
    /\ UNCHANGED <<call, n, v, data, interrupted, outcome, output, iters,
                   unchecked, maxVars>>

\* Rcpp::NumericMatrix output(data.size(), data[0].size()); the copy loops;
\* return output.  With data empty, data[0] refers to no element: the read of
\* its size is undefined, and the build may crash or read any size.
Build ==
    /\ pc = "build"
    /\ IF Len(data) = 0
          THEN \/ /\ pc' = "crashed"
                  /\ outcome' = "crashed"
                  /\ UNCHANGED output
               \/ \E g \in GarbageSizes :
                  /\ output' = [nrow |-> 0, ncol |-> g, cells |-> <<>>]
                  /\ outcome' = "grid"
                  /\ pc' = "done"
          ELSE /\ output' = MakeGrid(data)
               /\ outcome' = "grid"
               /\ pc' = "done"
    /\ UNCHANGED <<call, n, i, v, data, interrupted, iters, unchecked,
                   maxVars>>

\* the host records a user interrupt while the call is running
RequestInterrupt ==
    /\ call = "permutations"
    /\ pc \notin Terminal
    /\ ~interrupted
    /\ interrupted' = TRUE
    /\ UNCHANGED <<call, pc, permVars, outcome, maxVars>>

----------------------------------------------------------------------------
(* maxC(v) *)

\* std::max_element(v.begin(), v.end()): entry
MaxElementBegin ==
    /\ pc = "max_element"
    /\ IF Len(mv) = 0
          THEN /\ result' = Len(mv) + 1
               /\ pc' = "deref"
          ELSE /\ result' = 1
               /\ pc' = "scan"
    /\ first' = 1
    /\ UNCHANGED <<call, permVars, interrupted, outcome, mv, ret>>

\* while (++first != last) if (*result < *first) result = first;
MaxElementScan ==
    /\ pc = "scan"
    /\ first' = first + 1
    /\ IF first' # Len(mv) + 1
          THEN /\ result' = IF Less(mv[result], mv[first']) THEN first'
                                                           ELSE result
               /\ pc' = "scan"
          ELSE /\ pc' = "deref"
               /\ UNCHANGED result
    /\ UNCHANGED <<call, permVars, interrupted, outcome, mv, ret>>

\* return *<iterator>; dereferencing end() is undefined: the call may crash
\* or return whatever lies behind the iterator.
Deref ==
    /\ pc = "deref"
    /\ IF result = Len(mv) + 1
          THEN \/ /\ pc' = "crashed"
                  /\ outcome' = "crashed"
                  /\ UNCHANGED ret
               \/ \E g \in GarbageVals :
                  /\ ret' = g
                  /\ outcome' = "value"
                  /\ pc' = "done"
          ELSE /\ ret' = mv[result]
               /\ outcome' = "value"
               /\ pc' = "done"
    /\ UNCHANGED <<call, permVars, interrupted, mv, first, result>>

----------------------------------------------------------------------------

Step ==
    \/ ForTest
    \/ Record
    \/ CheckUserInterrupt
    \/ While
    \/ Incr
    \/ Build
    \/ MaxElementBegin
    \/ MaxElementScan
    \/ Deref

Next ==
    \/ ForTest
    \/ Record
    \/ CheckUserInterrupt
    \/ While
    \/ Incr
    \/ Build
    \/ RequestInterrupt
    \/ MaxElementBegin
    \/ MaxElementScan
    \/ Deref

Spec == Init /\ [][Next]_vars

\* The call is single-threaded and runs to completion: a statement that can
\* run does run.
LiveSpec == Init /\ [][Next]_vars /\ WF_vars(Step)

----------------------------------------------------------------------------
(* Vocabulary of the properties *)

RECURSIVE Fact(_)
Fact(k) == IF k <= 0 THEN 1 ELSE k * Fact(k - 1)

Iota(k) == [x \in 1..k |-> x]

PermutationsOf(k) == {f \in [1..k -> 1..k] : \A a, b \in 1..k : f[a] = f[b] => a = b}

LexLess(a, b) ==
    \E k \in 1..Len(a) :
        /\ k <= Len(b)
        /\ \A m \in 1..(k - 1) : a[m] = b[m]
        /\ a[k] < b[k]

\* row r (0-based) of a returned grid, as a sequence
GridRow(g, r) == [c \in 1..g.ncol |-> g.cells[<<r, c - 1>>]]

GridRows(g) == [r \in 1..g.nrow |-> GridRow(g, r - 1)]

\* d is what a single do-while loop over the arrangements of [1..k] records,
\* with no outer loop: it starts at [1..k], each further row is the next
\* arrangement of the row before, and it stops at the first row that has no
\* next arrangement.
IsDirectEnumeration(d, k) ==
    /\ Len(d) >= 1
    /\ d[1] = Iota(k)
    /\ \A r \in 1..(Len(d) - 1) :
          NextPermutation(d[r]) = [seq |-> d[r + 1], more |-> TRUE]
    /\ ~NextPermutation(d[Len(d)]).more

Returned == call = "permutations" /\ pc = "done"

----------------------------------------------------------------------------
(* Properties *)

\* C1: for every n >= 1 in the bounded range, a call permutations(n) that
\* is not interrupted returns a grid with exactly n! rows and exactly n
\* columns.
C1_Shape ==
    (Returned /\ n >= 1) =>
        /\ outcome = "grid"
        /\ output.nrow = Fact(n)
        /\ output.ncol = n
        /\ DOMAIN output.cells = (0..(Fact(n) - 1)) \X (0..(n - 1))

C1_Witness == Returned /\ n = 4 /\ output.nrow = 24 /\ output.ncol = 4

\* C2: for every n >= 1, the rows returned by permutations(n) are exactly
\* the permutations of {1..n}: every row holds each value 1..n once, every
\* permutation is a row, and no row appears twice.
C2_AllPermutations ==
    (Returned /\ n >= 1) =>
        LET rows == GridRows(output) IN
        /\ \A r \in 1..Len(rows) : rows[r] \in PermutationsOf(n)
        /\ \A p \in PermutationsOf(n) : \E r \in 1..Len(rows) : rows[r] = p
        /\ \A r, q \in 1..Len(rows) : rows[r] = rows[q] => r = q

C2_Witness ==
    /\ Returned
    /\ n = 3
    /\ \E r \in 1..output.nrow : GridRow(output, r - 1) = <<2, 3, 1>>

\* C3: for every n >= 1, the rows returned by permutations(n) are in
\* strictly ascending lexicographic order, the first row is [1,2,...,n] and
\* the last row is [n,n-1,...,1].
C3_LexOrder ==
    (Returned /\ n >= 1) =>
        LET rows == GridRows(output) IN
        /\ Len(rows) >= 1
        /\ \A r \in 1..(Len(rows) - 1) : LexLess(rows[r], rows[r + 1])
        /\ rows[1] = Iota(n)
        /\ rows[Len(rows)] = Reverse(Iota(n))

C3_Witness ==
    /\ Returned
    /\ n = 3
    /\ GridRow(output, 1) = <<1, 3, 2>>
    /\ GridRow(output, 2) = <<2, 1, 3>>

\* C4: for every n <= 0, permutations(n) fails with an InvalidArgument error
\* before touching any data structure and never returns a grid.
C4_InvalidArgument ==
    (call = "permutations" /\ n <= 0 /\ pc \in Terminal) =>
        outcome = "InvalidArgument"

\* C5 as stated: an interruption requested at any point during a call
\* permutations(n) ends the call with a Cancelled failure and no grid.
C5_AnyPointCancels ==
    (call = "permutations" /\ n >= 1 /\ interrupted /\ pc \in Terminal) =>
        outcome = "Cancelled"

\* C5 amended: an interruption that is pending when an interrupt check runs
\* ends the call with Cancelled and no grid; one requested after the last
\* check is not observed.  For n >= 1 a call ends either with the complete
\* n!-row grid or with Cancelled, never with a grid of fewer than n! rows.
C5_CancelledOrComplete ==
    /\ [](call = "permutations" /\ n >= 1 =>
            /\ outcome \in {"none", "grid", "Cancelled"}
            /\ outcome = "none" <=> pc \notin Terminal
            /\ outcome = "Cancelled" => interrupted /\ output = EmptyGrid
            /\ outcome = "grid" => /\ output.nrow = Fact(n)
                                   /\ GridRows(output) = data)
    /\ [][(pc = "check" /\ interrupted /\ pc' # pc) =>
            (outcome' = "Cancelled" /\ pc' = "cancelled")]_vars

C5_Witness ==
    /\ call = "permutations"
    /\ n = 3
    /\ outcome = "Cancelled"
    /\ Len(data) = 2

\* C6: during permutations(n) the interruption request is checked at least
\* once per emitted row: between two consecutive recordings of a row, and
\* after the last recording before the grid is built, there is a check.
C6_CheckPerRow ==
    /\ unchecked <= 1
    /\ pc \in {"do", "build", "done"} => unchecked = 0

C6_Witness ==
    /\ call = "permutations"
    /\ pc = "do"
    /\ i = n
    /\ Len(data) = 3
    /\ unchecked = 0

\* C7: for every non-empty input sequence, maxC(values) returns an element
\* of the sequence that is greater than or equal to every element of it.
C7_Greatest ==
    (call = "maxC" /\ Len(mv) >= 1 /\ pc \in Terminal) =>
        /\ outcome = "value"
        /\ \E k \in 1..Len(mv) : mv[k] = ret
        /\ \A k \in 1..Len(mv) : mv[k] <= ret

C7_Witness ==
    /\ call = "maxC"
    /\ pc = "done"
    /\ Len(mv) = 3
    /\ mv[1] < mv[2]
    /\ mv[3] < mv[2]
    /\ ret = mv[2]

\* C8: maxC called with an empty sequence fails with an InvalidArgument
\* error and neither dereferences an element nor returns a number.
C8_EmptyInvalidArgument ==
    (call = "maxC" /\ Len(mv) = 0 /\ pc \in Terminal) =>
        outcome = "InvalidArgument"

\* C9: only the final outer iteration (i = n) records rows: iterations
\* i < n record nothing, no row of length less than n is ever recorded, and
\* for every n >= 1 the recorded rows equal, in content and order, the rows
\* of a direct single-loop lexicographic enumeration of [1..n].
C9_DeadOuterIterations ==
    call = "permutations" =>
        /\ i < n => data = <<>>
        /\ \A r \in 1..Len(data) : Len(data[r]) = n
        /\ (n >= 1 /\ pc \in {"build", "done"}) => IsDirectEnumeration(data, n)

C9_Witness ==
    /\ call = "permutations"
    /\ pc = "build"
    /\ n = 4
    /\ Len(data) = 24

\* C10: with no interruption requested and n >= 1, every inner loop ends:
\* in outer iteration i it starts with the working sequence [1..i], runs
\* exactly i! iterations and stops with the working sequence back at
\* [1..i]; hence the whole call eventually returns.
C10_InnerLoopsEnd ==
    /\ [](call = "permutations" =>
            /\ (pc = "do" /\ iters = 0) => v = Iota(i)
            /\ pc \in {"do", "check", "while"} => iters <= Fact(i)
            /\ pc = "incr" => (iters = Fact(i) /\ v = Iota(i)))
    /\ (call = "permutations" /\ n >= 1) =>
            <>(interrupted \/ (pc = "done" /\ outcome = "grid"))

C10_Witness ==
    /\ call = "permutations"
    /\ pc = "incr"
    /\ i = 4
    /\ iters = 24
    /\ ~interrupted

====
